---- MODULE Spec2Model ----
(***************************************************************************)
(* Model of owfmodules/uart/baudrate_analyzer.py (class BaudrateAnalyzer). *)
(*                                                                         *)
(* The module's run() is modelled as a sequential program whose position   *)
(* is pc; the target device is the environment: it may put a byte into the *)
(* adapter's receive buffer between any two steps of the program.          *)
(*                                                                         *)
(* Conventions:                                                            *)
(*   - an option whose value is the empty string "" is the empty sequence  *)
(*     <<>>, a set option is the one-element sequence <<v>>;               *)
(*   - text options that the code parses (baudrate_list) are sequences of  *)
(*     one-character strings;                                              *)
(*   - entropy values are fixed point, in millionths (1000000 = 1.0).      *)
(***************************************************************************)
EXTENDS Integers, Sequences, FiniteSets, TLC

\* ---------------------------------------------------------------- bounds

\* Number of 100-baud steps baudrate_max is drawn from in the rate-sequence runs.
MaxSpan == 9
\* Longest sample over the four-value alphabet that entropy is applied to.
MaxSample == 4
\* Capacity of the adapter's receive buffer that the model explores.
MaxBuf == 2
\* Largest number of candidates an incremental sweep of the model generates.
MaxCandidates == 2

\* ------------------------------------------------------ program constants

\* process_baudrate: threshold = 10
Threshold == 10
\* process_baudrate: `loop < 3`
MaxTrigger == 3
\* check_options: range(0, 15)
PinCount == 15
\* advanced option baudrate_min / baudrate_inc default
DefaultBaud == 300

\* ------------------------------------------------------------ text helpers

Digits == {"0", "1", "2", "3", "4", "5", "6", "7", "8", "9"}

DigitVal(c) ==
    CASE c = "0" -> 0 [] c = "1" -> 1 [] c = "2" -> 2 [] c = "3" -> 3
      [] c = "4" -> 4 [] c = "5" -> 5 [] c = "6" -> 6 [] c = "7" -> 7
      [] c = "8" -> 8 [] c = "9" -> 9

\* str.upper() on the option strings the model draws from.
Upper(s) ==
    CASE s = "incremental" -> "INCREMENTAL"
      [] s = "Incremental" -> "INCREMENTAL"
      [] s = "list" -> "LIST"
      [] s = "List" -> "LIST"
      [] s = "low" -> "LOW"
      [] s = "Low" -> "LOW"
      [] s = "high" -> "HIGH"
      [] s = "HIGH" -> "HIGH"
      [] s = "fast" -> "FAST"
      [] s = "up" -> "UP"
      [] OTHER -> s

\* str.split(","): the pieces between the commas; never an empty list.
RECURSIVE Split(_, _)
Split(s, acc) ==
    IF s = <<>> THEN <<acc>>
    ELSE IF Head(s) = "," THEN <<acc>> \o Split(Tail(s), <<>>)
    ELSE Split(Tail(s), Append(acc, Head(s)))

RECURSIVE LStrip(_)
LStrip(s) == IF s # <<>> /\ Head(s) = " " THEN LStrip(Tail(s)) ELSE s

RECURSIVE RStrip(_)
RStrip(s) ==
    IF s # <<>> /\ s[Len(s)] = " " THEN RStrip(SubSeq(s, 1, Len(s) - 1)) ELSE s

\* str.strip()
Strip(s) == RStrip(LStrip(s))

\* int(s) raises ValueError unless s is a non-empty run of digits
\* (over the alphabet of the model: digits, space, comma, letters).
IsInt(s) == s # <<>> /\ \A i \in 1..Len(s) : s[i] \in Digits

RECURSIVE IntOf(_)
IntOf(s) == IF s = <<>> THEN 0 ELSE 10 * IntOf(SubSeq(s, 1, Len(s) - 1)) + DigitVal(s[Len(s)])

\* The entries of baudrate_list as list_mode's comprehension sees them.
Entries(text) == LET parts == Split(text, <<>>) IN [i \in 1..Len(parts) |-> Strip(parts[i])]

\* Variant: the upper end included.
RECURSIVE PyRangeInclusive(_, _, _)
PyRangeInclusive(lo, hi, step) ==
    IF lo <= hi THEN <<lo>> \o PyRangeInclusive(lo + step, hi, step) ELSE <<>>

\* range(min, max, step) for step > 0.
RECURSIVE PyRange(_, _, _)
PyRange(lo, hi, step) == IF lo < hi THEN <<lo>> \o PyRange(lo + step, hi, step) ELSE <<>>

\* ----------------------------------------------------------------- entropy

\* round(log2(k) * 10^6)
Log2Micro(k) ==
    CASE k = 1 -> 0 [] k = 2 -> 1000000 [] k = 3 -> 1584963 [] k = 4 -> 2000000
      [] k = 5 -> 2321928 [] k = 6 -> 2584963 [] k = 7 -> 2807355
      [] k = 8 -> 3000000 [] k = 9 -> 3169925 [] k = 10 -> 3321928
      [] k = 11 -> 3459432 [] k = 12 -> 3584963 [] k = 13 -> 3700440
      [] k = 14 -> 3807355 [] k = 15 -> 3906891 [] k = 16 -> 4000000

RECURSIVE SumOver(_, _)
SumOver(S, f) ==
    IF S = {} THEN 0 ELSE LET x == CHOOSE y \in S : TRUE IN f[x] + SumOver(S \ {x}, f)

\* Counter(b_buff)
Counter(b_buff) ==
    [v \in {b_buff[i] : i \in 1..Len(b_buff)} |->
        Cardinality({i \in 1..Len(b_buff) : b_buff[i] = v})]

\* Variant: the counts are not divided by the length of the sample.
entropyUnnormalised(b_buff) ==
    LET p == Counter(b_buff)
        lns == Len(b_buff)
        term == [v \in DOMAIN p |-> p[v] * (Log2Micro(lns) - Log2Micro(p[v]))]
    IN SumOver(DOMAIN p, term)

\* -sum(count/lns * log2(count/lns)) = sum(count * (log2 lns - log2 count)) / lns
\* For an empty buffer the sum has no term and nothing is divided.
entropy(b_buff) ==
    LET p == Counter(b_buff)
        lns == Len(b_buff)
        term == [v \in DOMAIN p |-> p[v] * (Log2Micro(lns) - Log2Micro(p[v]))]
    IN IF lns = 0 THEN 0 ELSE SumOver(DOMAIN p, term) \div lns

\* ------------------------------------------------------------------ inputs

ModeInputs == {"incremental", "List", "fast"}

\* <<reset_pin, reset_pol>>
ResetInputs ==
    { << <<>>, "low" >>, << <<>>, "up" >>, << <<3>>, "low" >>, << <<3>>, "HIGH" >>,
      << <<3>>, "up" >>, << <<PinCount>>, "low" >> }

MinEntropyInputs == { <<>>, <<1000000>> }

\* <<baudrate_min, baudrate_max, baudrate_inc>>
IncrementalInputs ==
    { <<DefaultBaud, DefaultBaud + DefaultBaud * k, DefaultBaud>> : k \in 0..MaxCandidates }

\* "96, 192"   "96,x"   ""
ListInputs ==
    { <<"9", "6", ",", " ", "1", "9", "2">>, <<"9", "6", ",", "x">>, <<>> }

\* advanced option baudrate_list default (unused in incremental mode)
DefaultList == <<"9", "6">>

\* What the target emits, byte after byte, cyclically.
TargetPatterns == { <<65>>, <<65, 66>> }

\* ------------------------------------------------------------------- state

VARIABLES
    options,          \* self.options: mode, reset_pin, trigger
    advanced_options, \* self.advanced_options: reset_pol, min_entropy, baudrate_*
    pc,               \* position of run()
    ending,           \* how run() ended: running, rejected, exhausted, found, error
    candidates,       \* the sequence the for loop iterates
    idx,              \* number of candidates the for loop has taken
    baudrate,         \* the loop variable
    uart_instance,    \* "None" or "UART"
    uart_baud,        \* baudrate the adapter's UART is configured at (0: not by us)
    uart_buf,         \* adapter-side receive buffer: bytes [val, epoch]
    serial_buf,       \* host-side transport buffer (serial_instance)
    in_waiting,       \* the count change_baudrate asked for its second flush
    reset_pin,        \* "None" or "GPIO"
    pin_status,       \* <<>>: never driven, <<level>>: last level written
    count,            \* process_baudrate local
    loop,             \* process_baudrate local
    received_bytes,   \* process_baudrate local
    ret,              \* value process_baudrate returned last ("None" before)
    results,          \* lines print_result logged: [baudrate, entropy]
    warnings,         \* baudrates of the "No data received" warnings
    errors,           \* number of messages logged at ERROR level
    target,           \* [pattern, phase]: the environment's byte source
    epoch,            \* number of configure() calls completed
    iter_ops,         \* port / pin operations of the current iteration, in order
    sent,             \* transmit() calls of the current collection
    stall,            \* transmit() calls since the last byte of the collection
    completed,        \* [baudrate, entropy] of the samples that reached Threshold
    cfg_failed,       \* baudrates whose reconfiguration raised
    silent,           \* the target has not emitted a byte so far
    stale_dropped     \* a flush of this iteration discarded a byte buffered
                      \* before the iteration's configure

vars ==
    << options, advanced_options, pc, ending, candidates, idx, baudrate,
       uart_instance, uart_baud, uart_buf, serial_buf, in_waiting, reset_pin,
       pin_status, count, loop, received_bytes, ret, results, warnings, errors,
       target, epoch, iter_ops, sent, stall, completed, cfg_failed, silent,
       stale_dropped >>

config_vars == << options, advanced_options >>
loop_vars == << candidates, idx, baudrate >>
port_vars == << uart_instance, uart_baud, uart_buf, serial_buf, in_waiting, epoch >>
pin_vars == << reset_pin, pin_status >>
local_vars == << count, loop, received_bytes, sent, stall >>
log_vars == << results, warnings, errors >>
ghost_vars == << completed, cfg_failed, stale_dropped >>

Init ==
    /\ \E m \in ModeInputs, r \in ResetInputs, t \in BOOLEAN, e \in MinEntropyInputs,
          inc \in IncrementalInputs, l \in ListInputs :
         /\ options = [mode |-> m, reset_pin |-> r[1], trigger |-> t]
         /\ advanced_options =
              [reset_pol |-> r[2], min_entropy |-> e,
               baudrate_min |-> IF Upper(m) = "LIST" THEN DefaultBaud ELSE inc[1],
               baudrate_max |-> IF Upper(m) = "LIST" THEN DefaultBaud ELSE inc[2],
               baudrate_inc |-> IF Upper(m) = "LIST" THEN DefaultBaud ELSE inc[3],
               baudrate_list |-> IF Upper(m) = "LIST" THEN l ELSE DefaultList]
    /\ \E p \in TargetPatterns : target = [pattern |-> p, phase |-> 0]
    /\ pc = "run"
    /\ ending = "running"
    /\ candidates = <<>>
    /\ idx = 0
    /\ baudrate = 0
    /\ uart_instance = "None"
    /\ uart_baud = 0
    /\ uart_buf = <<>>
    /\ serial_buf \in { <<>>, << [val |-> 255, epoch |-> 0] >> }
    /\ in_waiting = 0
    /\ reset_pin = "None"
    /\ pin_status = <<>>
    /\ count = 0
    /\ loop = 0
    /\ received_bytes = <<>>
    /\ ret = "None"
    /\ results = <<>>
    /\ warnings = <<>>
    /\ errors = 0
    /\ epoch = 0
    /\ iter_ops = <<>>
    /\ sent = 0
    /\ stall = 0
    /\ completed = <<>>
    /\ cfg_failed = <<>>
    /\ silent = TRUE
    /\ stale_dropped = FALSE

\* ------------------------------------------------------------- environment

\* The target puts its next byte on the line; the adapter buffers it.
TargetSend ==
    /\ pc # "done"
    /\ Len(uart_buf) < MaxBuf
    /\ uart_buf' = Append(uart_buf,
                     [val |-> target.pattern[target.phase + 1], epoch |-> epoch])
    /\ target' = [target EXCEPT !.phase = (target.phase + 1) % Len(target.pattern)]
    /\ silent' = FALSE
    /\ UNCHANGED << config_vars, pc, ending, loop_vars, uart_instance, uart_baud,
                    serial_buf, in_waiting, epoch, pin_vars, local_vars, ret,
                    log_vars, iter_ops, ghost_vars >>

\* ------------------------------------------------------------ check_options

check_options ==
    IF /\ options.reset_pin # <<>>
       /\ Upper(advanced_options.reset_pol) \notin {"LOW", "HIGH"}
    THEN FALSE
    ELSE IF options.reset_pin # <<>> /\ options.reset_pin[1] \notin 0..(PinCount - 1)
    THEN FALSE
    ELSE IF Upper(options.mode) \notin {"INCREMENTAL", "LIST"}
    THEN FALSE
    ELSE IF /\ Upper(options.mode) = "LIST"
            /\ Len(Entries(advanced_options.baudrate_list)) = 0
    THEN FALSE
    ELSE TRUE

\* run(): `if self.check_options(): ... else: return`
RunCheckOptions ==
    /\ pc = "run"
    /\ IF check_options
       THEN pc' = "init" /\ UNCHANGED << errors, ending >>
       ELSE pc' = "done" /\ errors' = errors + 1 /\ ending' = "rejected"
    /\ UNCHANGED << config_vars, loop_vars, port_vars, pin_vars, local_vars, ret,
                    results, warnings, target, iter_ops, ghost_vars, silent >>

\* init(): create the UART instance, configure the reset line if defined.
InitModule ==
    /\ pc = "init"
    /\ uart_instance' = "UART"
    /\ IF options.reset_pin # <<>>
       THEN /\ reset_pin' = "GPIO"
            /\ pin_status' = IF Upper(advanced_options.reset_pol) = "LOW"
                             THEN <<1>> ELSE <<0>>
       ELSE reset_pin' = "None" /\ UNCHANGED pin_status
    /\ pc' = "dispatch"
    /\ UNCHANGED << config_vars, ending, loop_vars, uart_baud, uart_buf, serial_buf,
                    in_waiting, epoch, local_vars, ret, log_vars, target, iter_ops,
                    ghost_vars, silent >>

\* incremental_mode(): the for loop's range is evaluated once.
IncrementalMode ==
    /\ pc = "dispatch"
    /\ Upper(options.mode) = "INCREMENTAL"
    /\ candidates' = PyRange(advanced_options.baudrate_min,
                             advanced_options.baudrate_max,
                             advanced_options.baudrate_inc)
    /\ idx' = 0
    /\ pc' = "for"
    /\ UNCHANGED << config_vars, ending, baudrate, port_vars, pin_vars, local_vars,
                    ret, log_vars, target, iter_ops, ghost_vars, silent >>

\* list_mode(): the comprehension is evaluated whole before the first
\* iteration; int() of a malformed entry raises ValueError, which run() logs.
ListMode ==
    /\ pc = "dispatch"
    /\ Upper(options.mode) = "LIST"
    /\ LET es == Entries(advanced_options.baudrate_list) IN
         IF \A i \in 1..Len(es) : IsInt(es[i])
         THEN /\ candidates' = [i \in 1..Len(es) |-> IntOf(es[i])]
              /\ pc' = "for"
              /\ UNCHANGED << errors, ending >>
         ELSE /\ candidates' = <<>>
              /\ pc' = "done"
              /\ errors' = errors + 1
              /\ ending' = "error"
    /\ idx' = 0
    /\ UNCHANGED << config_vars, baudrate, port_vars, pin_vars, local_vars, ret,
                    results, warnings, target, iter_ops, ghost_vars, silent >>

\* Truthiness of a value a method returned, as `if` tests it.
Truthy(v) == v = "True"

\* The for statement: `break` when process_baudrate returned a true value,
\* otherwise the next candidate, or the end of the loop.
ForNext ==
    /\ pc = "for"
    /\ IF Truthy(ret)
       THEN /\ pc' = "done"
            /\ ending' = "found"
            /\ UNCHANGED << idx, baudrate, iter_ops, stale_dropped >>
       ELSE IF idx < Len(candidates)
       THEN /\ idx' = idx + 1
            /\ baudrate' = candidates[idx + 1]
            /\ iter_ops' = <<>>
            /\ stale_dropped' = FALSE
            /\ pc' = "cb_serial_read"
            /\ UNCHANGED ending
       ELSE /\ pc' = "done"
            /\ ending' = "exhausted"
            /\ UNCHANGED << idx, baudrate, iter_ops, stale_dropped >>
    /\ ret' = "None"
    \* the locals of the process_baudrate call that returned are gone
    /\ count' = 0
    /\ loop' = 0
    /\ received_bytes' = <<>>
    /\ sent' = 0
    /\ stall' = 0
    /\ UNCHANGED << config_vars, candidates, port_vars, pin_vars,
                    log_vars, target, completed, cfg_failed, silent >>

\* ---------------------------------------------------------- change_baudrate

Min(a, b) == IF a < b THEN a ELSE b

\* uart_instance.receive(n): the adapter sends n buffered bytes over the
\* transport; the host reads n bytes from the head of the transport buffer.
UartReceive(n) ==
    LET k == Min(n, Len(uart_buf))
        stream == serial_buf \o SubSeq(uart_buf, 1, k)
        got == Min(n, Len(stream))
    IN [data |-> SubSeq(stream, 1, got),
        uart |-> SubSeq(uart_buf, k + 1, Len(uart_buf)),
        serial |-> SubSeq(stream, got + 1, Len(stream))]

\* serial_instance.read(serial_instance.in_waiting)
SerialRead ==
    /\ pc = "cb_serial_read"
    /\ serial_buf' = <<>>
    /\ stale_dropped' = (stale_dropped \/ serial_buf # <<>>)
    /\ iter_ops' = Append(iter_ops, "serial_read")
    /\ pc' = "cb_configure"
    /\ UNCHANGED << config_vars, ending, loop_vars, uart_instance, uart_baud, uart_buf,
                    in_waiting, epoch, pin_vars, local_vars, ret, log_vars, target,
                    completed, cfg_failed, silent >>

\* uart_instance.configure(baudrate=baudrate) returns.
Configure ==
    /\ pc = "cb_configure"
    /\ uart_baud' = baudrate
    /\ epoch' = epoch + 1
    /\ iter_ops' = Append(iter_ops, "configure")
    /\ pc' = "cb_in_waiting"
    /\ UNCHANGED << config_vars, ending, loop_vars, uart_instance, uart_buf, serial_buf,
                    in_waiting, pin_vars, local_vars, ret, log_vars, target,
                    ghost_vars, silent >>

\* Variant: a failed reconfiguration ends the sweep.
ConfigureFailsAborts ==
    /\ pc = "cb_configure"
    /\ errors' = errors + 1
    /\ cfg_failed' = Append(cfg_failed, baudrate)
    /\ pc' = "done"
    /\ ending' = "error"
    /\ UNCHANGED << config_vars, loop_vars, port_vars, pin_vars, local_vars,
                    ret, results, warnings, target, iter_ops, completed, silent,
                    stale_dropped >>

\* Variant: the caller does not test what change_baudrate returned.
ConfigureFailsContinues ==
    /\ pc = "cb_configure"
    /\ errors' = errors + 1
    /\ cfg_failed' = Append(cfg_failed, baudrate)
    /\ pc' = "reset_target"
    /\ UNCHANGED << config_vars, ending, loop_vars, port_vars, pin_vars, local_vars,
                    ret, results, warnings, target, iter_ops, completed, silent,
                    stale_dropped >>

\* uart_instance.configure raises: the except clause logs the error and
\* change_baudrate returns False; the caller's `if` body is skipped.
ConfigureFails ==
    /\ pc = "cb_configure"
    /\ errors' = errors + 1
    /\ cfg_failed' = Append(cfg_failed, baudrate)
    /\ pc' = "for"
    /\ UNCHANGED << config_vars, ending, loop_vars, port_vars, pin_vars, local_vars,
                    ret, results, warnings, target, iter_ops, completed, silent,
                    stale_dropped >>

\* uart_instance.in_waiting(), the argument of the flushing receive.
UartInWaiting ==
    /\ pc = "cb_in_waiting"
    /\ in_waiting' = Len(uart_buf)
    /\ pc' = "cb_receive"
    /\ UNCHANGED << config_vars, ending, loop_vars, uart_instance, uart_baud, uart_buf,
                    serial_buf, epoch, pin_vars, local_vars, ret, log_vars, target,
                    iter_ops, ghost_vars, silent >>

\* Variant: the second flush is left out.
UartFlushSkipped ==
    /\ pc = "cb_receive"
    /\ in_waiting' = 0
    /\ iter_ops' = Append(iter_ops, "uart_flush")
    /\ pc' = "reset_target"
    /\ UNCHANGED << config_vars, ending, loop_vars, uart_instance, uart_baud, uart_buf,
                    serial_buf, epoch, pin_vars, local_vars, ret, log_vars, target,
                    ghost_vars, silent >>

\* uart_instance.receive(in_waiting): the result is dropped; return True.
\* (in_waiting is a temporary: it is cleared once used.)
UartFlush ==
    /\ pc = "cb_receive"
    /\ LET r == UartReceive(in_waiting) IN
         /\ uart_buf' = r.uart
         /\ serial_buf' = r.serial
         /\ stale_dropped' = (stale_dropped
                               \/ \E i \in 1..Len(r.data) : r.data[i].epoch < epoch)
    /\ in_waiting' = 0
    /\ iter_ops' = Append(iter_ops, "uart_flush")
    /\ pc' = "reset_target"
    /\ UNCHANGED << config_vars, ending, loop_vars, uart_instance, uart_baud,
                    epoch, pin_vars, local_vars, ret, log_vars, target,
                    completed, cfg_failed, silent >>

\* ------------------------------------------------------------- reset_target

\* Variant: the polarity test inverted.
ActiveLevelInverted == IF Upper(advanced_options.reset_pol) = "LOW" THEN 1 ELSE 0

\* The level that resets the target: 0 for 'low', 1 otherwise.
ActiveLevel == IF Upper(advanced_options.reset_pol) = "LOW" THEN 0 ELSE 1

PinOp(level) == IF level = 0 THEN "pin0" ELSE "pin1"

\* reset_target() with self.reset_pin None: nothing.
ResetTargetNone ==
    /\ pc = "reset_target"
    /\ reset_pin = "None"
    /\ pc' = "process_baudrate"
    /\ UNCHANGED << config_vars, ending, loop_vars, port_vars, pin_vars, local_vars,
                    ret, log_vars, target, iter_ops, ghost_vars, silent >>

\* reset_pin.status = active level, then sleep(reset_hold).
ResetTargetAssert ==
    /\ pc = "reset_target"
    /\ reset_pin # "None"
    /\ pin_status' = <<ActiveLevel>>
    /\ iter_ops' = Append(iter_ops, PinOp(ActiveLevel))
    /\ pc' = "reset_hold"
    /\ UNCHANGED << config_vars, ending, loop_vars, port_vars, reset_pin, local_vars,
                    ret, log_vars, target, ghost_vars, silent >>

\* Variant: the second assignment of reset_pin.status is missing.
ResetTargetReleaseMissing ==
    /\ pc = "reset_hold"
    /\ pc' = "process_baudrate"
    /\ UNCHANGED << config_vars, ending, loop_vars, port_vars, pin_vars, local_vars,
                    ret, log_vars, target, iter_ops, ghost_vars, silent >>

\* reset_pin.status = inactive level, then sleep(reset_delay).
ResetTargetRelease ==
    /\ pc = "reset_hold"
    /\ pin_status' = <<1 - ActiveLevel>>
    /\ iter_ops' = Append(iter_ops, PinOp(1 - ActiveLevel))
    /\ pc' = "process_baudrate"
    /\ UNCHANGED << config_vars, ending, loop_vars, port_vars, reset_pin, local_vars,
                    ret, log_vars, target, ghost_vars, silent >>

\* --------------------------------------------------------- process_baudrate

Vals(bs) == [i \in 1..Len(bs) |-> bs[i].val]

\* count = 0; received_bytes = bytearray(); loop = 0
ProcessBaudrateEnter ==
    /\ pc = "process_baudrate"
    /\ count' = 0
    /\ loop' = 0
    /\ received_bytes' = <<>>
    /\ sent' = 0
    /\ stall' = 0
    /\ pc' = "while"
    /\ UNCHANGED << config_vars, ending, loop_vars, port_vars, pin_vars, ret, log_vars,
                    target, iter_ops, ghost_vars, silent >>

\* wait_bytes(): True as soon as in_waiting() > 0 within the second,
\* False when the second passes with nothing buffered.
wait_bytes == Len(uart_buf) > 0

\* The first poll of a collection is recorded among the iteration's operations.
Polled == IF iter_ops # <<>> /\ iter_ops[Len(iter_ops)] = "poll"
          THEN iter_ops ELSE Append(iter_ops, "poll")

\* Variant: the retry counter starts again after every byte.
LoopAfterByteReset(l) == 0

\* The retry counter after a byte was read: the branch does not touch it.
LoopAfterByte(l) == l

\* `if self.wait_bytes():` tmp = receive(1); count += 1; received_bytes.extend(tmp)
ReceiveByte ==
    /\ pc = "while"
    /\ wait_bytes
    /\ LET r == UartReceive(1) IN
         /\ uart_buf' = r.uart
         /\ serial_buf' = r.serial
         /\ received_bytes' = received_bytes \o r.data
    /\ count' = count + 1
    /\ loop' = LoopAfterByte(loop)
    /\ stall' = 0
    /\ iter_ops' = Polled
    /\ pc' = IF count + 1 < Threshold THEN "while" ELSE "entropy"
    /\ UNCHANGED << config_vars, ending, loop_vars, uart_instance, uart_baud,
                    in_waiting, epoch, pin_vars, sent, ret, log_vars, target,
                    ghost_vars, silent >>

\* Variant: the trigger option is not tested.
TriggerAllowedIgnoresOption == loop < MaxTrigger

\* Variant: the retry budget is not tested.
TriggerAllowedUnbounded == options.trigger

\* Variant: `loop <= 3`.
TriggerAllowedOffByOne == options.trigger /\ loop <= MaxTrigger

\* `elif self.options["trigger"]["Value"] and loop < 3:`
TriggerAllowed == options.trigger /\ loop < MaxTrigger

\* loop += 1; trigger_device(): transmit(trigger_char); sleep(0.2); continue
TriggerDevice ==
    /\ pc = "while"
    /\ ~wait_bytes
    /\ TriggerAllowed
    /\ loop' = loop + 1
    /\ sent' = sent + 1
    /\ stall' = stall + 1
    /\ iter_ops' = Polled
    /\ UNCHANGED << config_vars, pc, ending, loop_vars, port_vars, pin_vars, count,
                    received_bytes, ret, log_vars, target, ghost_vars, silent >>

\* Variant: the partial sample is scored and printed before returning False.
NoDataReportsPartial ==
    /\ pc = "while"
    /\ ~wait_bytes
    /\ ~TriggerAllowed
    /\ warnings' = Append(warnings, baudrate)
    /\ results' = Append(results, [baudrate |-> baudrate,
                                    entropy |-> entropy(Vals(received_bytes))])
    /\ ret' = "False"
    /\ iter_ops' = Polled
    /\ pc' = "for"
    /\ UNCHANGED << config_vars, ending, loop_vars, port_vars, pin_vars, local_vars,
                    errors, target, ghost_vars, silent >>

\* Variant: the timeout raises instead of returning False.
NoDataRaises ==
    /\ pc = "while"
    /\ ~wait_bytes
    /\ ~TriggerAllowed
    /\ warnings' = Append(warnings, baudrate)
    /\ errors' = errors + 1
    /\ iter_ops' = Polled
    /\ pc' = "done"
    /\ ending' = "error"
    /\ UNCHANGED << config_vars, loop_vars, port_vars, pin_vars, local_vars, ret,
                    results, target, ghost_vars, silent >>

\* `else:` warn "No data received ..." and return False.
NoData ==
    /\ pc = "while"
    /\ ~wait_bytes
    /\ ~TriggerAllowed
    /\ warnings' = Append(warnings, baudrate)
    /\ ret' = "False"
    /\ iter_ops' = Polled
    /\ pc' = "for"
    /\ UNCHANGED << config_vars, ending, loop_vars, port_vars, pin_vars, local_vars,
                    results, errors, target, ghost_vars, silent >>

\* Variant: `entropy > min_entropy`.
PrintedStrict(m, e) == IF m # <<>> THEN e > m[1] ELSE TRUE

\* Whether process_baudrate prints the result line, min_entropy being m.
Printed(m, e) == IF m # <<>> THEN e >= m[1] ELSE TRUE

\* The value process_baudrate returns after a completed sample: the
\* function ends without a return statement.
CompletedReturn == "None"

\* The part of the end of process_baudrate that logs.
ScoreReport(m) ==
    LET e == entropy(Vals(received_bytes)) IN
    results' = IF Printed(m, e)
               THEN Append(results, [baudrate |-> baudrate, entropy |-> e])
               ELSE results

\* Variant: a true value is returned only for a printed result.
ScoreControlGated(m) ==
    /\ ret' = IF Printed(m, entropy(Vals(received_bytes))) THEN "True" ELSE "None"
    /\ completed' = Append(completed, [baudrate |-> baudrate,
                                        entropy |-> entropy(Vals(received_bytes))])
    /\ pc' = "for"
    /\ UNCHANGED << config_vars, ending, loop_vars, port_vars, pin_vars, local_vars,
                    warnings, errors, target, iter_ops, cfg_failed, silent,
                    stale_dropped >>

\* Everything else the end of process_baudrate does, min_entropy being m.
ScoreControl(m) ==
    /\ ret' = CompletedReturn
    /\ completed' = Append(completed, [baudrate |-> baudrate,
                                        entropy |-> entropy(Vals(received_bytes))])
    /\ pc' = "for"
    /\ UNCHANGED << config_vars, ending, loop_vars, port_vars, pin_vars, local_vars,
                    warnings, errors, target, iter_ops, cfg_failed, silent,
                    stale_dropped >>

\* entropy = self.entropy(received_bytes); print_result unless filtered.
Score ==
    /\ pc = "entropy"
    /\ ScoreReport(advanced_options.min_entropy)
    /\ ScoreControl(advanced_options.min_entropy)

\* ------------------------------------------------------------ specification

Next ==
    \/ TargetSend
    \/ RunCheckOptions
    \/ InitModule
    \/ IncrementalMode
    \/ ListMode
    \/ ForNext
    \/ SerialRead
    \/ Configure
    \/ ConfigureFails
    \/ UartInWaiting
    \/ UartFlush
    \/ ResetTargetNone
    \/ ResetTargetAssert
    \/ ResetTargetRelease
    \/ ProcessBaudrateEnter
    \/ ReceiveByte
    \/ TriggerDevice
    \/ NoData
    \/ Score

Spec == Init /\ [][Next]_vars

TypeOK ==
    /\ pc \in {"run", "init", "dispatch", "for", "cb_serial_read", "cb_configure",
               "cb_in_waiting", "cb_receive", "reset_target", "reset_hold",
               "process_baudrate", "while", "entropy", "done"}
    /\ ending \in {"running", "rejected", "exhausted", "found", "error", "interrupted"}
    /\ count \in 0..Threshold
    /\ Len(uart_buf) <= MaxBuf

\* ------------------------------------------------------------------ claims

\* The program is inside an iteration of the for loop.
InIteration ==
    pc \in {"cb_serial_read", "cb_configure", "cb_in_waiting", "cb_receive",
            "reset_target", "reset_hold", "process_baudrate", "while", "entropy"}

\* The program is collecting or scoring the sample of the current candidate.
Sampling == pc \in {"while", "entropy"}

\* Every candidate taken so far has ended in exactly one of: reconfiguration
\* failed, NoData, completed sample; the current one is candidates[idx].
OneOutcomePerCandidate ==
    /\ idx <= Len(candidates)
    /\ Len(cfg_failed) + Len(warnings) + Len(completed)
         = idx - (IF InIteration THEN 1 ELSE 0)
    /\ InIteration => baudrate = candidates[idx]

\* C1: once a candidate has produced a completed sample the sweep has
\* halted: the program is at the loop head about to leave, or has ended; no
\* later candidate is reconfigured, reset or sampled.
C1_HaltsOnFirstSample == completed # <<>> => pc \in {"for", "done"}

C3_TimeoutRecoverable ==
    /\ (pc = "for" /\ ret = "False")
         => /\ warnings # <<>> /\ warnings[Len(warnings)] = baudrate
            /\ Len(results) <= Len(completed)
            /\ Len(cfg_failed) + Len(warnings) + Len(completed) = idx
    /\ pc = "cb_serial_read"
         => /\ baudrate = candidates[idx]
            /\ Len(cfg_failed) + Len(warnings) + Len(completed) = idx - 1
    /\ (pc = "done" /\ warnings # <<>>)
         => /\ ending \in {"exhausted", "found"}
            /\ ending = "exhausted" => idx = Len(candidates)
    /\ (pc = "done" /\ silent /\ ~options.trigger /\ ending \notin {"rejected", "error"})
         => /\ ending = "exhausted"
            /\ results = <<>>
            /\ completed = <<>>
            /\ Len(warnings) + Len(cfg_failed) = Len(candidates)
            /\ cfg_failed = <<>> => warnings = candidates

C3_Witness ==
    /\ pc = "done"
    /\ silent
    /\ ~options.trigger
    /\ ending = "exhausted"
    /\ Len(candidates) = 2
    /\ warnings = candidates

TriggerBudgetInv ==
    /\ sent <= MaxTrigger
    /\ stall <= sent
    /\ ~options.trigger => sent = 0
    /\ (pc = "for" /\ ret = "False" /\ options.trigger) => sent = MaxTrigger
    /\ pc = "entropy" => (Len(received_bytes) = Threshold /\ sent <= MaxTrigger)

\* C4: a collection transmits the trigger at most 3 times (so at most 3
\* times in any one stall); a transmit happens only after a poll that found
\* nothing, never while a byte is available; a collection with trigger
\* enabled times out only after 3 transmits, so a target that answers the
\* k-th trigger (k <= 3) gets its sample completed with k transmit calls.
C4_TriggerBudget ==
    /\ []TriggerBudgetInv
    /\ [][sent' # sent =>
            \/ /\ sent' = sent + 1
               /\ pc = "while"
               /\ options.trigger
               /\ Len(uart_buf) = 0
               /\ sent < MaxTrigger
            \/ /\ sent' = 0
               /\ pc = "for"]_vars

C4_Witness ==
    /\ pc = "entropy"
    /\ options.trigger
    /\ sent = 2
    /\ count = Threshold

\* C5 (as claimed): reading a byte resets the stall-retry counter.
C5_CounterResetOnByte == [][(pc = "while" /\ count' = count + 1) => loop' = 0]_vars

\* C5 (amended): the retry counter is not reset when a byte is read: it
\* equals the number of trigger transmissions of the whole collection, so the
\* budget of 3 is shared by all stalls of a collection, and a poll timeout
\* after 3 transmissions fails the collection even right after a byte.
C5_BudgetPerCollection ==
    /\ Sampling => loop = sent
    /\ stall <= loop
    /\ (pc = "for" /\ ret = "False" /\ options.trigger) => loop = MaxTrigger

C5_Witness ==
    /\ pc = "for"
    /\ ret = "False"
    /\ options.trigger
    /\ count > 0
    /\ stall = 0

PassesFilter(c) ==
    \/ advanced_options.min_entropy = <<>>
    \/ c.entropy >= advanced_options.min_entropy[1]

TwinMinEntropy == MinEntropyInputs \cup { <<0>>, <<3000000>> }

\* C7: min_entropy does not steer the sweep: the only step that reads it is
\* the end of process_baudrate, and whatever value min_entropy has, that
\* step changes everything but the printed lines in the same way (so two
\* runs that differ only in min_entropy stay in lockstep).
C7_FilterDoesNotSteer ==
    [][(pc = "entropy" /\ pc' # pc) => \A m \in TwinMinEntropy : ScoreControl(m)]_vars

C7_Witness ==
    /\ pc = "for"
    /\ completed # <<>>
    /\ results = <<>>
    /\ ret # "False"

PortOps(ops) == SelectSeq(ops, LAMBDA o : o \in {"serial_read", "configure", "uart_flush", "poll"})

IsPrefix(a, b) == Len(a) <= Len(b) /\ a = SubSeq(b, 1, Len(a))

PinOps(ops) == SelectSeq(ops, LAMBDA o : o \in {"pin0", "pin1"})

\* C9: with a reset pin, every iteration whose reconfiguration succeeded
\* drives the pin to the active level (0 for 'low', 1 for 'high'), then to
\* the inactive level, both before the first poll of the sample; without a
\* reset pin the pin is never driven.
C9_ResetPulseBeforeSampling ==
    /\ options.reset_pin = <<>> => (pin_status = <<>> /\ PinOps(iter_ops) = <<>>)
    /\ (options.reset_pin # <<>> /\ pc \in {"process_baudrate", "while", "entropy"})
         => /\ SubSeq(iter_ops, 1, 5)
                 = <<"serial_read", "configure", "uart_flush">>
                     \o (IF Upper(advanced_options.reset_pol) = "LOW"
                         THEN <<"pin0", "pin1">> ELSE <<"pin1", "pin0">>)
            /\ pin_status = IF Upper(advanced_options.reset_pol) = "LOW"
                            THEN <<1>> ELSE <<0>>
            /\ Len(PinOps(iter_ops)) = 2
    /\ (options.reset_pin # <<>> /\ pc = "reset_hold")
         => pin_status = IF Upper(advanced_options.reset_pol) = "LOW"
                         THEN <<0>> ELSE <<1>>

C9_Witness ==
    /\ options.reset_pin # <<>>
    /\ Upper(advanced_options.reset_pol) = "HIGH"
    /\ pc = "while"
    /\ count > 0
    /\ idx = 2

\* A configuration error as the claim lists them.
ConfigError ==
    \/ Upper(options.mode) \notin {"INCREMENTAL", "LIST"}
    \/ /\ options.reset_pin # <<>>
       /\ Upper(advanced_options.reset_pol) \notin {"LOW", "HIGH"}
    \/ /\ Upper(options.mode) = "LIST"
       /\ \E i \in 1..Len(Entries(advanced_options.baudrate_list)) :
            ~IsInt(Entries(advanced_options.baudrate_list)[i])

\* C10: a configuration error is rejected by check_options before the
\* sweep: init is not performed (no UART instance, pin not driven), no
\* candidate is reconfigured, reset or sampled, and run returns.
C10_ConfigErrorRejected ==
    (ConfigError /\ pc # "run")
      => /\ pc = "done"
         /\ ending = "rejected"
         /\ uart_instance = "None"
         /\ reset_pin = "None"
         /\ pin_status = <<>>
         /\ epoch = 0

\* ------------------------------------------------- C11: incremental rates

\* <<baudrate_min, baudrate_max, baudrate_inc>> of the rate-sequence runs.
RangeInputs ==
    { <<lo, DefaultBaud + 100 * k, st>> :
        lo \in {DefaultBaud, 400}, k \in 0..MaxSpan, st \in {200, DefaultBaud, 400} }

\* The state construction leaves everything but the options and the
\* environment in.
Fresh ==
    /\ pc = "run"
    /\ ending = "running"
    /\ candidates = <<>>
    /\ idx = 0
    /\ baudrate = 0
    /\ uart_instance = "None"
    /\ uart_baud = 0
    /\ uart_buf = <<>>
    /\ in_waiting = 0
    /\ reset_pin = "None"
    /\ pin_status = <<>>
    /\ count = 0
    /\ loop = 0
    /\ received_bytes = <<>>
    /\ ret = "None"
    /\ results = <<>>
    /\ warnings = <<>>
    /\ errors = 0
    /\ epoch = 0
    /\ iter_ops = <<>>
    /\ sent = 0
    /\ stall = 0
    /\ completed = <<>>
    /\ cfg_failed = <<>>
    /\ silent = TRUE
    /\ stale_dropped = FALSE

\* Incremental sweeps over a wider choice of (min, max, inc), against a
\* target that stays silent, without reset pin and trigger.
InitRange ==
    /\ \E r \in RangeInputs :
         advanced_options =
           [reset_pol |-> "low", min_entropy |-> <<>>, baudrate_min |-> r[1],
            baudrate_max |-> r[2], baudrate_inc |-> r[3], baudrate_list |-> DefaultList]
    /\ options = [mode |-> "incremental", reset_pin |-> <<>>, trigger |-> FALSE]
    /\ target = [pattern |-> <<65>>, phase |-> 0]
    /\ serial_buf = <<>>
    /\ Fresh

NextRange ==
    \/ RunCheckOptions
    \/ InitModule
    \/ IncrementalMode
    \/ ForNext
    \/ SerialRead
    \/ Configure
    \/ ConfigureFails
    \/ UartInWaiting
    \/ UartFlush
    \/ ResetTargetNone
    \/ ProcessBaudrateEnter
    \/ NoData

SpecRange == InitRange /\ [][NextRange]_vars

\* Number of terms of min, min+step, ... that are below max.
TermsBelow(lo, hi, st) == IF hi > lo THEN (hi - lo + st - 1) \div st ELSE 0

Interrupt ==
    /\ pc # "done"
    /\ pc' = "done"
    /\ ending' = "interrupted"
    /\ UNCHANGED <<options, advanced_options, candidates, idx, baudrate, port_vars,
                   pin_vars, local_vars, ret, log_vars, target, iter_ops,
                   ghost_vars, silent>>

NextInterrupt == Next \/ Interrupt

SpecInterrupt == Init /\ [][NextInterrupt]_vars

\* C12: an interrupt delivered at any point of the sweep (a candidate has
\* been taken) stops it, and when run ends neither the transport buffer nor
\* the adapter's receive buffer holds a byte.
C12_InterruptLeavesPortFlushed ==
    (ending = "interrupted" /\ idx >= 1) =>
      /\ pc = "done"
      /\ uart_buf = <<>>
      /\ serial_buf = <<>>

\* ------------------------------------------------------ C13: termination

\* A statement of the module executes: every action but the target's.
ProgramStep ==
    \/ RunCheckOptions
    \/ InitModule
    \/ IncrementalMode
    \/ ListMode
    \/ ForNext
    \/ SerialRead
    \/ Configure
    \/ ConfigureFails
    \/ UartInWaiting
    \/ UartFlush
    \/ ResetTargetNone
    \/ ResetTargetAssert
    \/ ResetTargetRelease
    \/ ProcessBaudrateEnter
    \/ ReceiveByte
    \/ TriggerDevice
    \/ NoData
    \/ Score

\* The interpreter keeps executing: no call of the module blocks for ever
\* (wait_bytes gives up after one second, the sleeps are finite).
\* The sweeps whose termination is checked: those of Init that report every
\* sample (the entropy filter decides nothing about control, see C7), with
\* an empty transport buffer and the polarity spelled "low".
InitFair ==
    /\ Init
    /\ advanced_options.min_entropy = <<>>
    /\ advanced_options.reset_pol = "low"
    /\ serial_buf = <<>>

SpecFair == InitFair /\ [][Next]_vars /\ WF_vars(ProgramStep)

\* Passes the collection loop can still make.
Rank == (Threshold - count) + (MaxTrigger - loop)

\* C13: absent interruption the sweep terminates, whatever the port does:
\* every pass of a collection loop reads a byte, sends a trigger within the
\* retry budget, or returns Timeout, so the loop makes a bounded number of
\* passes; a sweep that started on its candidates ends having exhausted
\* them or having stopped on a success.
C13_SweepTerminates ==
    /\ <>(pc = "done")
    /\ (pc = "for") ~> (pc = "done" /\ ending \in {"found", "exhausted"})
    /\ [](pc = "while" => count < Threshold /\ loop <= MaxTrigger)
    /\ [](ending = "exhausted" => idx = Len(candidates))
    /\ [][(pc = "while" /\ Len(uart_buf') <= Len(uart_buf)) =>
            /\ \/ count' = count + 1 /\ Len(received_bytes') = Len(received_bytes) + 1
               \/ sent' = sent + 1 /\ loop < MaxTrigger /\ options.trigger
               \/ ret' = "False" /\ pc' = "for"
            /\ pc' = "while" => Rank' < Rank]_vars

C13_Witness ==
    /\ pc = "done"
    /\ ending = "exhausted"
    /\ Len(candidates) = 2
    /\ completed # <<>>
    /\ warnings # <<>>
    /\ options.trigger

\* ---------------------------------------------------------- C14: entropy

\* Samples handed to entropy(): every sequence of 1..MaxSample bytes over
\* four values, and every full sample of Threshold bytes over two values.
EntropySamples ==
    UNION { [1..n -> {0, 65, 66, 255}] : n \in 1..MaxSample }
      \cup [1..Threshold -> {65, 66}]

\* process_baudrate about to score a sample s of the first candidate.
InitEntropy ==
    /\ options = [mode |-> "incremental", reset_pin |-> <<>>, trigger |-> FALSE]
    /\ advanced_options =
         [reset_pol |-> "low", min_entropy |-> <<>>, baudrate_min |-> DefaultBaud,
          baudrate_max |-> 2 * DefaultBaud, baudrate_inc |-> DefaultBaud,
          baudrate_list |-> DefaultList]
    /\ pc = "entropy"
    /\ ending = "running"
    /\ candidates = <<DefaultBaud>>
    /\ idx = 1
    /\ baudrate = DefaultBaud
    /\ uart_instance = "UART"
    /\ uart_baud = DefaultBaud
    /\ uart_buf = <<>>
    /\ serial_buf = <<>>
    /\ in_waiting = 0
    /\ reset_pin = "None"
    /\ pin_status = <<>>
    /\ \E s \in EntropySamples :
         /\ received_bytes = [i \in 1..Len(s) |-> [val |-> s[i], epoch |-> 1]]
         /\ count = Len(s)
    /\ loop = 0
    /\ ret = "None"
    /\ results = <<>>
    /\ warnings = <<>>
    /\ errors = 0
    /\ target = [pattern |-> <<65, 66>>, phase |-> 0]
    /\ epoch = 1
    /\ iter_ops = <<"serial_read", "configure", "uart_flush", "poll">>
    /\ sent = 0
    /\ stall = 0
    /\ completed = <<>>
    /\ cfg_failed = <<>>
    /\ silent = FALSE
    /\ stale_dropped = FALSE

NextEntropy == Score

SpecEntropy == InitEntropy /\ [][NextEntropy]_vars

\* Number of occurrences of v in s.
Occurrences(s, v) == Cardinality({i \in 1..Len(s) : s[i] = v})

\* C14: for every non-empty sample the entropy (in millionths of a bit) lies
\* in [0, 8]; a sample of one repeated value has entropy 0; a sample whose k
\* distinct values are equally frequent has entropy log2(k), up to the
\* rounding of the last digit.
C14_EntropyRange ==
    (pc = "for" /\ completed # <<>>) =>
      LET s == Vals(received_bytes)
          e == completed[Len(completed)].entropy
          vs == {s[i] : i \in 1..Len(s)}
          k == Cardinality(vs)
      IN /\ s # <<>>
         /\ 0 <= e
         /\ e <= 8000000
         /\ e <= Log2Micro(k) + 1
         /\ k = 1 => e = 0
         /\ k > 1 => e > 0
         /\ (\A v, w \in vs : Occurrences(s, v) = Occurrences(s, w)) =>
              e - Log2Micro(k) \in -1..1
         /\ results = <<[baudrate |-> baudrate, entropy |-> e]>>

C14_Witness ==
    /\ pc = "for"
    /\ Vals(received_bytes) = [i \in 1..Threshold |-> IF i % 2 = 1 THEN 65 ELSE 66]
    /\ completed = <<[baudrate |-> DefaultBaud, entropy |-> 1000000]>>

\* ------------------------------------------------------ C16: short reads

\* The branch of ReceiveByte when receive(1) returns no byte although the
\* poll saw one buffered (the interface lets receive return fewer bytes than
\* asked): tmp is empty, the counter is incremented all the same and the
\* sample is extended by nothing.
ReceiveByteShort ==
    /\ pc = "while"
    /\ wait_bytes
    /\ received_bytes' = received_bytes \o <<>>
    /\ count' = count + 1
    /\ loop' = LoopAfterByte(loop)
    /\ stall' = 0
    /\ iter_ops' = Polled
    /\ pc' = IF count + 1 < Threshold THEN "while" ELSE "entropy"
    /\ UNCHANGED << config_vars, ending, loop_vars, port_vars, pin_vars, sent, ret,
                    log_vars, target, ghost_vars, silent >>

NextShortRead == Next \/ ReceiveByteShort

SpecShortRead == Init /\ [][NextShortRead]_vars

\* C16: whenever entropy is computed the sample holds exactly Threshold
\* bytes and the byte counter equals the length of the sample, also with a
\* port whose receive(1) may return fewer bytes than asked.
C16_SampleIsThresholdBytes ==
    pc = "entropy" =>
      /\ Len(received_bytes) = Threshold
      /\ count = Len(received_bytes)

\* --------------------------------------------- C17: Timeout of a collection

\* C17: a collection returns Timeout only at a poll that found no byte,
\* with trigger disabled or the retry budget used up, never while a byte is
\* available; the bytes received so far (fewer than Threshold) are not
\* scored and no result line is printed, the candidate is warned about as
\* NoData, and the next collection starts with an empty sample, a zero byte
\* counter and a zero retry counter.
C17_TimeoutDiscardsPartial ==
    /\ [][(ret' = "False" /\ ret # "False") =>
            /\ pc = "while"
            /\ Len(uart_buf) = 0
            /\ ~options.trigger \/ loop = MaxTrigger
            /\ count < Threshold
            /\ Len(received_bytes) = count
            /\ results' = results
            /\ completed' = completed
            /\ warnings' = Append(warnings, baudrate)
            /\ received_bytes' = received_bytes
            /\ pc' = "for"]_vars
    /\ [][(pc = "for" /\ ret = "False" /\ pc' # "for") =>
            /\ received_bytes' = <<>> /\ count' = 0 /\ loop' = 0
            /\ results' = results /\ completed' = completed
            /\ pc' \in {"cb_serial_read", "done"}]_vars
    /\ [][pc' = "while" /\ pc # "while" =>
            received_bytes' = <<>> /\ count' = 0 /\ loop' = 0]_vars
    /\ []((pc = "for" /\ ret = "False") =>
            \A i \in 1..Len(completed) : completed[i].baudrate # baudrate
                                           \/ \E j \in 1..(idx - 1) : candidates[j] = baudrate)

C17_Witness ==
    /\ pc = "for"
    /\ ret = "False"
    /\ idx = 2
    /\ ~options.trigger
    /\ count \in 1..(Threshold - 1)
    /\ Len(received_bytes) = count
    /\ results = <<>>

\* ------------------------------------- C18: nothing after a failed configure

\* The operations of the current iteration include a successful configure.
Configured == \E i \in 1..Len(iter_ops) : iter_ops[i] = "configure"

\* C18: the reset pulse and the collection of a candidate happen only after
\* change_baudrate succeeded for that candidate; for a candidate whose
\* reconfiguration failed the pin is not driven, no trigger is transmitted
\* and no byte is received for a sample, and the rate never gets a sample
\* or a NoData warning.
C18_OnlyAfterConfigured ==
    /\ pc \in {"cb_in_waiting", "cb_receive", "reset_target", "reset_hold",
               "process_baudrate", "while", "entropy"}
         => /\ IsPrefix(<<"serial_read", "configure">>, iter_ops)
            /\ uart_baud = baudrate
            /\ baudrate = candidates[idx]
    /\ \A i \in 1..Len(iter_ops) :
         iter_ops[i] \in {"pin0", "pin1", "poll"}
           => \E j \in 1..(i - 1) : iter_ops[j] = "configure"
    /\ (sent > 0 \/ count > 0 \/ received_bytes # <<>>)
         => (Configured /\ uart_baud = baudrate)
    /\ (pc = "for" /\ idx >= 1 /\ ~Configured)
         => /\ iter_ops = <<"serial_read">>
            /\ cfg_failed # <<>>
            /\ cfg_failed[Len(cfg_failed)] = baudrate
            /\ sent = 0 /\ count = 0 /\ received_bytes = <<>>
            /\ ret = "None"
    /\ \A i \in 1..Len(cfg_failed) :
         /\ \A j \in 1..Len(warnings) : warnings[j] # cfg_failed[i]
         /\ \A j \in 1..Len(completed) : completed[j].baudrate # cfg_failed[i]

C18_Witness ==
    /\ pc = "for"
    /\ idx = 2
    /\ iter_ops = <<"serial_read">>
    /\ cfg_failed = <<baudrate>>
    /\ completed # <<>>
    /\ options.reset_pin # <<>>
    /\ options.trigger

\* ------------------------------------------- C19: pin at rest when idle

\* C19: with a reset pin configured, the pin is at its inactive level (1 for
\* polarity 'low', 0 for 'high') in every state outside the hold phase of
\* reset_target: after init, during the polls, receives and triggers of a
\* collection, and when the sweep has ended; the target is never left in
\* reset.
C19_PinInactiveOutsideHold ==
    /\ (options.reset_pin # <<>> /\ pc \notin {"run", "init"} /\ ending # "rejected")
         => reset_pin = "GPIO"
    /\ reset_pin = "GPIO" =>
         /\ options.reset_pin # <<>>
         /\ Upper(advanced_options.reset_pol) \in {"LOW", "HIGH"}
         /\ pc # "reset_hold" =>
              /\ Upper(advanced_options.reset_pol) = "LOW" => pin_status = <<1>>
              /\ Upper(advanced_options.reset_pol) = "HIGH" => pin_status = <<0>>
         /\ pc = "reset_hold" => pin_status # <<>>

C19_Witness ==
    /\ pc = "done"
    /\ ending = "exhausted"
    /\ reset_pin = "GPIO"
    /\ Upper(advanced_options.reset_pol) = "LOW"
    /\ pin_status = <<1>>
    /\ Len(warnings) + Len(completed) = 2
    /\ completed # <<>>

\* --------------------------------------- C20: trigger disabled, no transmit

\* C20: with the trigger option disabled nothing is ever transmitted to the
\* target, at no point of the sweep, whatever the candidates and the port
\* do; the first poll of a candidate that finds no byte ends that candidate
\* with NoData.
C20_NoTransmitWithoutTrigger ==
    /\ [](~options.trigger => (sent = 0 /\ stall = 0 /\ loop = 0))
    /\ [][~options.trigger => (sent' = sent /\ options' = options)]_vars
    /\ [][(~options.trigger /\ pc = "while" /\ Len(uart_buf) = 0 /\ Len(uart_buf') = 0) =>
            /\ ret' = "False"
            /\ pc' = "for"
            /\ warnings' = Append(warnings, baudrate)
            /\ count' = count]_vars

C20_Witness ==
    /\ ~options.trigger
    /\ pc = "for"
    /\ ret = "False"
    /\ idx = 1
    /\ count = 0
    /\ iter_ops # <<>>
    /\ iter_ops[Len(iter_ops)] = "poll"
    /\ ~silent

====
